---- MODULE Spec2Model ----
(***************************************************************************)
(* Model of tools/tools.h (Wine tools helper functions): the allocation    *)
(* wrappers, strmake, and the strarray functions, over an explicit heap.   *)
(*                                                                         *)
(* Memory is a finite set of blocks.  A pointer is a block number, NULL is *)
(* 0.  A block holds cells: bytes for a C string (terminated by NUL = 0),  *)
(* string pointers for the storage of a strarray.  Sizes are counted in    *)
(* cells (the factor sizeof(array->str[0]) of line 118 is constant).       *)
(***************************************************************************)
EXTENDS Integers, Sequences, FiniteSets, TLC

\* ------------------------------------------------------------- bounds
MaxBlocks == 12      \* blocks of the heap (the allocator fails when all are live)
NLit == 4            \* caller-owned strings that exist before any call
MaxPrefill == 17     \* largest number of strings array a holds initially
MaxPrefillB == 1     \* largest number of strings array b holds initially
MaxCalls == 1        \* library calls the caller makes after the initial state
MaxTextLen == 4      \* longest text given to the tokenizer (SpecSplit)
MaxSortLen == 3      \* longest array sorted and searched (SpecSort)
MaxAllocSize == 2    \* largest size requested from the allocation wrappers (SpecAlloc)
MaxFmtLen == 101     \* longest rendered output of strmake (SpecFmt)
MaxFmtFails == 2     \* times the formatting engine may signal failure (SpecFmt)

\* ------------------------------------------------------------- memory
NULL == 0
NUL == 0
Uninit == -1         \* the indeterminate value of a cell never written
Wild == -2           \* the value a read of released storage may yield
INITIAL_SIZE == 16
Diag == "Virtual memory exhausted.\n"

Blocks == 1..MaxBlocks
Lits == 1..NLit
Arrays == {"a", "b"}                       \* the caller's arrays
Structs == Arrays \cup {"empty_strarray", "array"}

VARIABLES
    heap,      \* block -> [live, data]
    arr,       \* the struct strarray objects: name -> [count, size, str]
    status,    \* "running", "exit1" (exit(1) was called), "crashed"
    err,       \* what was written to stderr
    ub,        \* TRUE once the code read or wrote storage it must not touch
    ret,       \* the value the last call returned (a pointer, or NULL)
    call,      \* the last call made: [op, arr, arg, src, bytes]
    calls,     \* number of calls made
    grow,      \* per array: number of growth steps (xrealloc calls) so far
    fmt        \* strmake's locals: [pc, size, len, fails, tries]

vars == <<heap, arr, status, err, ub, ret, call, calls, grow, fmt>>

\* Bytes of caller string i: 1 "x", 2 "y", 3 "z", 4 "x" again, ...
LitBytes(i) == <<120 + ((i - 1) % 3), NUL>>

FreeCells(n) == [i \in 1..n |-> Uninit]

\* The caller's text for the tokenizer lives in the block after the literals.
TextBlock == NLit + 1

\* The heap before any call: the caller's strings and the caller's text.
InitHeap(text) ==
    [b \in Blocks |->
        IF b \in Lits THEN [live |-> TRUE, data |-> LitBytes(b)]
        ELSE IF b = TextBlock THEN [live |-> TRUE, data |-> text \o <<NUL>>]
        ELSE [live |-> FALSE, data |-> <<>>]]

\* The lowest block that is not live, NULL when the heap is exhausted.
FreshBlock(h) ==
    IF \E b \in DOMAIN h : ~h[b].live
    THEN CHOOSE b \in DOMAIN h : ~h[b].live /\ \A c \in DOMAIN h : ~h[c].live => b <= c
    ELSE NULL

\* malloc(size): oc is the allocator's outcome, "fail" or anything else.
malloc(h, size, oc) ==
    LET b == FreshBlock(h) IN
    IF oc = "fail" \/ b = NULL THEN [h |-> h, p |-> NULL]
    ELSE [h |-> [h EXCEPT ![b] = [live |-> TRUE, data |-> FreeCells(size)]], p |-> b]

free(h, p) ==
    IF p = NULL THEN h ELSE [h EXCEPT ![p].live = FALSE]

Min(x, y) == IF x < y THEN x ELSE y

Resized(data, size) ==
    [i \in 1..size |-> IF i <= Len(data) THEN data[i] ELSE Uninit]

\* realloc(ptr, size).  Outcomes: "fail" (NULL, the block untouched), "inplace"
\* (the same block, resized), "moved" (a new block with the old contents, the old
\* one released), and for size 0 also "freed" (the block released, NULL returned).
realloc(h, ptr, size, oc) ==
    IF ptr = NULL THEN malloc(h, size, oc)
    ELSE IF size = 0 /\ oc = "freed" THEN [h |-> free(h, ptr), p |-> NULL]
    ELSE IF oc = "fail" THEN [h |-> h, p |-> NULL]
    ELSE IF oc = "moved" /\ FreshBlock(h) # NULL
    THEN LET b == FreshBlock(h) IN
         [h |-> [h EXCEPT ![b] = [live |-> TRUE, data |-> Resized(h[ptr].data, size)],
                          ![ptr].live = FALSE],
          p |-> b]
    ELSE [h |-> [h EXCEPT ![ptr].data = Resized(@, size)], p |-> ptr]

\* xmalloc: [h, p, st]; st is "exit1" when the diagnostic was written and exit(1) called.
xmalloc(h, size, oc) ==
    LET res == malloc(h, IF size # 0 THEN size ELSE 1, oc) IN
    IF res.p = NULL THEN [h |-> h, p |-> NULL, st |-> "exit1"]
    ELSE [h |-> res.h, p |-> res.p, st |-> "running"]

xrealloc_unchecked(h, ptr, size, oc) ==
    LET res == realloc(h, ptr, size, oc) IN
    [h |-> res.h, p |-> res.p, st |-> "running"]

xrealloc(h, ptr, size, oc) ==
    LET res == realloc(h, ptr, size, oc) IN
    IF size # 0 /\ res.p = NULL THEN [h |-> h, p |-> NULL, st |-> "exit1"]
    ELSE [h |-> res.h, p |-> res.p, st |-> "running"]

\* ------------------------------------------------------------- C strings
RECURSIVE strlenFrom(_, _)
strlenFrom(data, i) ==
    IF i > Len(data) \/ data[i] = NUL THEN 0 ELSE 1 + strlenFrom(data, i + 1)

\* The bytes of the C string starting at cell off of data, without the NUL.
CStrAt(data, off) == SubSeq(data, off, off + strlenFrom(data, off) - 1)

Bytes(h, p) == CStrAt(h[p].data, 1)
strlen(h, p) == Len(Bytes(h, p))

RECURSIVE SeqCmp(_, _)
SeqCmp(s, t) ==
    IF s = <<>> /\ t = <<>> THEN 0
    ELSE IF s = <<>> THEN -1
    ELSE IF t = <<>> THEN 1
    ELSE IF Head(s) # Head(t) THEN Head(s) - Head(t)
    ELSE SeqCmp(Tail(s), Tail(t))

strcmp(h, p, q) == SeqCmp(Bytes(h, p), Bytes(h, q))

\* xstrdup: strcpy( xmalloc( strlen(str)+1 ), str )
xstrdupBytes(h, bytes, oc) ==
    LET res == xmalloc(h, Len(bytes) + 1, oc) IN
    IF res.st # "running" THEN res
    ELSE [h |-> [res.h EXCEPT ![res.p].data = bytes \o <<NUL>>], p |-> res.p, st |-> "running"]

xstrdup(h, str, oc) == xstrdupBytes(h, Bytes(h, str), oc)

\* ------------------------------------------------------------- strarray
\* The value of a zero-initialised struct strarray (line 110: a static object).
ZeroArray == [count |-> 0, size |-> 0, str |-> NULL]

\* The strings in use, in order.
Elems(h, s) == IF s.count = 0 THEN <<>> ELSE SubSeq(h[s.str].data, 1, s.count)

\* if (array->size) array->size *= 2; else array->size = 16;
grow_size_linear(size) == IF size # 0 THEN size + INITIAL_SIZE ELSE INITIAL_SIZE

grow_size(size) == IF size # 0 THEN size * 2 ELSE INITIAL_SIZE

\* array->str = xrealloc( array->str, sizeof(array->str[0]) * array->size );
strarray_grow_fresh(h, ptr, size, oc) ==
    LET res == xmalloc(free(h, ptr), size, oc) IN
    IF res.st # "running" THEN [h |-> h, p |-> NULL, st |-> res.st] ELSE res

strarray_grow(h, ptr, size, oc) == xrealloc(h, ptr, size, oc)

\* strarray_add: [a, h, st, grew]
strarray_add(s, h, str, oc) ==
    IF s.count = s.size
    THEN LET size == grow_size(s.size)
             res == strarray_grow(h, s.str, size, oc)
         IN  IF res.st # "running"
             THEN [a |-> s, h |-> h, st |-> res.st, grew |-> 0]
             ELSE [a |-> [count |-> s.count + 1, size |-> size, str |-> res.p],
                   h |-> [res.h EXCEPT ![res.p].data[s.count + 1] = str],
                   st |-> "running", grew |-> 1]
    ELSE [a |-> [s EXCEPT !.count = s.count + 1],
          h |-> [h EXCEPT ![s.str].data[s.count + 1] = str],
          st |-> "running", grew |-> 0]

RECURSIVE strarray_exists_from(_, _, _, _)
strarray_exists_from(s, h, str, i) ==
    IF i >= s.count THEN 0
    ELSE IF strcmp(h, h[s.str].data[i + 1], str) = 0 THEN 1
    ELSE strarray_exists_from(s, h, str, i + 1)

\* A membership test that compares the pointers, not the bytes.
strarray_exists_byptr(s, h, str) ==
    IF \E i \in 1..s.count : h[s.str].data[i] = str THEN 1 ELSE 0

strarray_exists(s, h, str) == strarray_exists_from(s, h, str, 0)

strarray_add_uniq(s, h, str, oc) ==
    IF strarray_exists(s, h, str) = 0 THEN strarray_add(s, h, str, oc)
    ELSE [a |-> s, h |-> h, st |-> "running", grew |-> 0]

\* The element read at added.str[i].  added is a by-value copy of a struct, so its
\* str may name a block that a growth step has since released: such a read is
\* undefined, and yields the stale cell, a wild value, or a crash (uo).
ReadElem(h, added, i, uo) ==
    IF h[added.str].live THEN [v |-> h[added.str].data[i + 1], ub |-> FALSE, st |-> "running"]
    ELSE IF uo = "stale" THEN [v |-> h[added.str].data[i + 1], ub |-> TRUE, st |-> "running"]
    ELSE IF uo = "wild" THEN [v |-> Wild, ub |-> TRUE, st |-> "running"]
    ELSE [v |-> Wild, ub |-> TRUE, st |-> "crashed"]

\* for (i = 0; i < added.count; i++) strarray_add( array, added.str[i] );
RECURSIVE strarray_addall_from(_, _, _, _, _, _)
strarray_addall_from(cur, added, i, oc, uo, uniq) ==
    IF i >= added.count \/ cur.st # "running" THEN cur
    ELSE LET rd == ReadElem(cur.h, added, i, uo)
             res == IF uniq THEN strarray_add_uniq(cur.a, cur.h, rd.v, oc)
                    ELSE strarray_add(cur.a, cur.h, rd.v, oc)
         IN  IF rd.st # "running" \/ (uniq /\ rd.v = Wild)
             THEN [cur EXCEPT !.st = "crashed", !.ub = TRUE]
             ELSE strarray_addall_from(
                      [a |-> res.a, h |-> res.h, st |-> res.st,
                       grew |-> cur.grew + res.grew, ub |-> cur.ub \/ rd.ub],
                      added, i + 1, oc, uo, uniq)

Start(s, h) == [a |-> s, h |-> h, st |-> "running", grew |-> 0, ub |-> FALSE]

strarray_addall(s, h, added, oc, uo) ==
    strarray_addall_from(Start(s, h), added, 0, oc, uo, FALSE)

strarray_addall_uniq(s, h, added, oc, uo) ==
    strarray_addall_from(Start(s, h), added, 0, oc, uo, TRUE)

\* ------------------------------------------------------------- tokenizer
RECURSIVE strspn(_, _, _)
\* Number of cells from position i on that are in delim (the NUL never is).
strspn(data, i, delim) ==
    IF data[i] # NUL /\ \E k \in 1..Len(delim) : delim[k] = data[i]
    THEN 1 + strspn(data, i + 1, delim) ELSE 0

RECURSIVE strcspn(_, _, _)
strcspn(data, i, delim) ==
    IF data[i] # NUL /\ ~\E k \in 1..Len(delim) : delim[k] = data[i]
    THEN 1 + strcspn(data, i + 1, delim) ELSE 0

\* strtok on the buffer data, scanning from position from (the argument, or the
\* position saved by the previous call): [data, tok, save], tok = 0 for NULL.
strtok(data, from, delim) ==
    LET s == from + strspn(data, from, delim)
        end == s + strcspn(data, s, delim)
    IN  IF data[s] = NUL THEN [data |-> data, tok |-> 0, save |-> s]
        ELSE IF data[end] = NUL THEN [data |-> data, tok |-> s, save |-> end]
        ELSE [data |-> [data EXCEPT ![end] = NUL], tok |-> s, save |-> end + 1]

\* A tokenizer that fills the shared static struct in place.
fromstring_alias == "empty_strarray"

\* The struct that strarray_fromstring fills: its own local variable, a copy.
fromstring_local == "array"

\* A tokenizer that cuts the caller's text itself.
fromstring_nodup(h, str, oc) == [h |-> h, p |-> str, st |-> "running"]

\* char *buf = xstrdup( str );
fromstring_buf(h, str, oc) == xstrdup(h, str, oc)

\* for (tok = strtok( buf, delim ); tok; tok = strtok( NULL, delim ))
\*     strarray_add( &array, xstrdup( tok ));
RECURSIVE fromstring_loop(_, _, _, _, _, _, _)
fromstring_loop(mem, h, loc, buf, from, delim, oc) ==
    LET tk == strtok(h[buf].data, from, delim)
        h1 == [h EXCEPT ![buf].data = tk.data]
    IN  IF tk.tok = 0 THEN [mem |-> mem, h |-> h1, st |-> "running", grew |-> 0]
        ELSE LET dup == xstrdupBytes(h1, CStrAt(tk.data, tk.tok), oc)
                 res == strarray_add(mem[loc], dup.h, dup.p, oc)
             IN  IF dup.st # "running" THEN [mem |-> mem, h |-> h, st |-> dup.st, grew |-> 0]
                 ELSE IF res.st # "running" THEN [mem |-> mem, h |-> h, st |-> res.st, grew |-> 0]
                 ELSE LET nxt == fromstring_loop([mem EXCEPT ![loc] = res.a], res.h, loc,
                                                 buf, tk.save, delim, oc)
                      IN  [nxt EXCEPT !.grew = @ + res.grew]

\* free( buf ); return array;
fromstring_return(res, buf, loc) ==
    [mem |-> res.mem, h |-> free(res.h, buf), st |-> res.st,
     grew |-> res.grew, val |-> res.mem[loc]]

fromstring_run(mem, buf, loc, delim, oc) ==
    IF buf.st # "running"
    THEN [mem |-> mem, h |-> buf.h, st |-> buf.st, grew |-> 0, val |-> ZeroArray]
    ELSE fromstring_return(fromstring_loop(mem, buf.h, loc, buf.p, 1, delim, oc), buf.p, loc)

\* strarray_fromstring on the struct memory mem: [mem, h, st, grew, val], val the
\* struct returned by value.  struct strarray array = empty_strarray; ...
strarray_fromstring(mem, h, str, delim, oc) ==
    fromstring_run([mem EXCEPT ![fromstring_local] = mem["empty_strarray"]],
                   fromstring_buf(h, str, oc), fromstring_local, delim, oc)

\* The delimiter of a path list (lines 165 to 169).
PathDelim(win32) == IF win32 THEN <<59>> ELSE <<58>>

strarray_frompath(mem, h, path, win32, oc) ==
    IF path = NULL
    THEN [mem |-> mem, h |-> h, st |-> "running", grew |-> 0, val |-> mem["empty_strarray"]]
    ELSE strarray_fromstring(mem, h, path, PathDelim(win32), oc)

\* ------------------------------------------------------------- joiner
\* strcpy / strcat into a block: a write past the block's end is undefined.
\* The block's cells after writing bytes and a NUL from cell at + 1 on.
PutStr(data, at, bytes) ==
    LET w == SubSeq(data, 1, at) \o bytes \o <<NUL>> IN
    IF Len(w) <= Len(data)
    THEN [data |-> w \o SubSeq(data, Len(w) + 1, Len(data)), ub |-> FALSE]
    ELSE [data |-> SubSeq(w, 1, Len(data)), ub |-> TRUE]

strcpy(data, bytes) == PutStr(data, 0, bytes)

strcat(data, bytes) == PutStr(data, strlenFrom(data, 1), bytes)

RECURSIVE tostring_sum(_, _, _)
\* for (i = 0; i < array.count; i++) len += strlen( array.str[i] );
tostring_sum(s, h, i) ==
    IF i >= s.count THEN 0
    ELSE strlen(h, h[s.str].data[i + 1]) + tostring_sum(s, h, i + 1)

\* A length without the cell of the terminating NUL.
tostring_len_short(s, h, sep) == (s.count - 1) * Len(sep) + tostring_sum(s, h, 0)

\* len = 1 + (array.count - 1) * strlen(sep), then the sum of the lengths.  The
\* unsigned arithmetic cannot wrap here: count is at least 1 where len is used,
\* and the lengths of the model stay far below 2^32.
tostring_len(s, h, sep) == 1 + (s.count - 1) * Len(sep) + tostring_sum(s, h, 0)

RECURSIVE tostring_cat(_, _, _, _, _)
tostring_cat(s, h, sep, i, cur) ==
    IF i >= s.count THEN cur
    ELSE LET c1 == strcat(cur.data, sep)
             c2 == strcat(c1.data, Bytes(h, h[s.str].data[i + 1]))
             nxt == [data |-> c2.data, ub |-> cur.ub \/ c1.ub \/ c2.ub]
         IN  \* (the test makes TLC compute the buffer before it goes on)
             IF nxt.ub \in BOOLEAN THEN tostring_cat(s, h, sep, i + 1, nxt) ELSE nxt

\* strarray_tostring: [h, p, st, ub]
strarray_tostring(s, h, sep, oc) ==
    IF s.count = 0 THEN xstrdupBytes(h, <<>>, oc) @@ [ub |-> FALSE]
    ELSE LET res == xmalloc(h, tostring_len(s, h, sep), oc) IN
         IF res.st # "running" THEN res @@ [ub |-> FALSE]
         ELSE LET c0 == strcpy(res.h[res.p].data, Bytes(h, h[s.str].data[1]))
                  cN == tostring_cat(s, h, sep, 1, c0)
              IN  [h |-> [res.h EXCEPT ![res.p].data = cN.data], p |-> res.p,
                   st |-> "running", ub |-> cN.ub]

\* ------------------------------------------------------------- sort and search
\* The caller's comparators over string references: 1 orders by bytes, 2 by bytes
\* in reverse, 3 by address.
Comparators == {1, 2, 3}

Compare(h, c, p, q) ==
    IF c = 1 THEN strcmp(h, p, q) ELSE IF c = 2 THEN strcmp(h, q, p) ELSE p - q

SortedBy(h, c, seq) ==
    \A i \in 1..Len(seq) : \A j \in i..Len(seq) : Compare(h, c, seq[i], seq[j]) <= 0

Perms(k) == {f \in [1..k -> 1..k] : \A i \in 1..k : \A j \in 1..k : f[i] = f[j] => i = j}

\* qsort( base, nmemb, ... ): the block's cells in any order the comparator accepts
\* (equal elements in any order: the sort is not stable).
qsort(data, nmemb, h, c) ==
    {d \in {[i \in 1..Len(data) |-> IF i <= nmemb THEN data[f[i]] ELSE data[i]] : f \in Perms(nmemb)} :
        SortedBy(h, c, SubSeq(d, 1, nmemb))}

\* strarray_qsort: the heaps the call may leave.
strarray_qsort(s, h, c) ==
    IF s.count # 0 THEN {[h EXCEPT ![s.str].data = d] : d \in qsort(h[s.str].data, s.count, h, c)}
    ELSE {h}

\* bsearch( &key, base, nmemb, ... ) between l and u: the index found, 0 if none.
RECURSIVE bsearch(_, _, _, _, _, _)
bsearch(key, data, l, u, h, c) ==
    IF l >= u THEN 0
    ELSE LET idx == (l + u) \div 2 IN
         IF Compare(h, c, key, data[idx + 1]) < 0 THEN bsearch(key, data, l, idx, h, c)
         ELSE IF Compare(h, c, key, data[idx + 1]) > 0 THEN bsearch(key, data, idx + 1, u, h, c)
         ELSE idx + 1

bsearch_result(data, at) == IF at # 0 THEN data[at] ELSE NULL

\* A search that takes an array of one string for an empty one.
strarray_bsearch_gt1(s, h, str, c) ==
    IF s.count > 1
    THEN bsearch_result(h[s.str].data, bsearch(str, h[s.str].data, 0, s.count, h, c))
    ELSE NULL

\* strarray_bsearch: the element found, or NULL.
strarray_bsearch(s, h, str, c) ==
    IF s.count # 0
    THEN bsearch_result(h[s.str].data, bsearch(str, h[s.str].data, 0, s.count, h, c))
    ELSE NULL

\* ------------------------------------------------------------- strmake
FMT_SIZE == 100

\* The rendered output: len bytes.
Output(len) == [i \in 1..len |-> 97]

\* vsnprintf( p, size, ... ) that returned n >= 0: at most size - 1 bytes and a NUL.
vsnprintf(data, size, len) ==
    IF size = 0 THEN data
    ELSE PutStr(data, 0, SubSeq(Output(len), 1, Min(len, size - 1))).data

\* An iteration that keeps its buffer.
strmake_leak(h, p) == h

\* free( p ) at the end of an iteration that did not return.
strmake_release(h, p) == free(h, p)

\* One iteration of strmake's loop with the engine returning n: [h, size, p], p the
\* buffer returned, NULL when the loop goes on.
strmake_step(h, p, size, len, n) ==
    IF n = -1 THEN [h |-> strmake_release(h, p), size |-> size * 2, p |-> NULL]
    ELSE IF n >= size THEN [h |-> strmake_release(h, p), size |-> n + 1, p |-> NULL]
    ELSE [h |-> [h EXCEPT ![p].data = vsnprintf(@, size, len)], size |-> size, p |-> p]

FmtIdle == [pc |-> "idle", size |-> 0, len |-> 0, fails |-> 0, tries |-> 0]

\* ------------------------------------------------------------- initial states
PrefillStr(i) == ((i - 1) % 2) + 1

\* The array and heap after strarray_add of each string of strs, in order, on a
\* copy of the zero array.
RECURSIVE Build(_, _)
Build(h, strs) ==
    IF strs = <<>> THEN [a |-> ZeroArray, h |-> h, st |-> "running", grew |-> 0]
    ELSE LET prev == Build(h, SubSeq(strs, 1, Len(strs) - 1))
             res == strarray_add(prev.a, prev.h, strs[Len(strs)], "moved")
         IN  [res EXCEPT !.grew = prev.grew + res.grew]

PrefillSeq(k) == [i \in 1..k |-> PrefillStr(i)]

Prefill(h, k) == Build(h, PrefillSeq(k))

NoCall == [op |-> "none", arr |-> "none", arg |-> 0, src |-> "none", bytes |-> <<>>]

InitWith(pa, pb, f) ==
    /\ heap = pb.h
    /\ arr = [n \in Structs |-> IF n = "a" THEN pa.a ELSE IF n = "b" THEN pb.a ELSE ZeroArray]
    /\ grow = [n \in Arrays |-> IF n = "a" THEN pa.grew ELSE pb.grew]
    /\ status = "running"
    /\ err = <<>>
    /\ ub = FALSE
    /\ ret = NULL
    /\ call = NoCall
    /\ calls = 0
    /\ fmt = f

\* ":a::b"
MainText == <<58, 97, 58, 58, 98>>
Delims == {<<>>, <<58>>, <<59>>, <<58, 59>>, <<97, 98, 58>>}
Seps == {<<>>, <<44>>, <<44, 32>>}

Init ==
    \E ka \in 0..MaxPrefill, kb \in 0..MaxPrefillB :
        LET pa == Prefill(InitHeap(MainText), ka) IN
        InitWith(pa, Prefill(pa.h, kb), FmtIdle)

Live == status = "running" /\ ~ub /\ calls < MaxCalls

Called(op, n, arg, src, bytes) ==
    /\ call' = [op |-> op, arr |-> n, arg |-> arg, src |-> src, bytes |-> bytes]
    /\ calls' = calls + 1
    /\ fmt' = fmt

\* The caller's state after a call on array n that ended as res says.
Finish(n, res) ==
    /\ ret' = NULL
    /\ IF res.st = "running"
       THEN /\ arr' = [arr EXCEPT ![n] = res.a]
            /\ heap' = res.h
            /\ grow' = [grow EXCEPT ![n] = @ + res.grew]
            /\ ub' = res.ub
            /\ UNCHANGED <<status, err>>
       ELSE /\ status' = res.st
            /\ err' = IF res.st = "exit1" THEN Append(err, Diag) ELSE err
            /\ ub' = (res.st = "crashed")
            /\ UNCHANGED <<arr, heap, grow>>

AllocOutcomes == {"fail", "inplace", "moved"}
ReadOutcomes == {"stale", "wild", "crash"}

Add(n, s) ==
    /\ Live
    /\ Called("add", n, s, "none", <<>>)
    /\ \E oc \in AllocOutcomes :
          Finish(n, strarray_add(arr[n], heap, s, oc) @@ [ub |-> FALSE])

AddUniq(n, s) ==
    /\ Live
    /\ Called("add_uniq", n, s, "none", <<>>)
    /\ \E oc \in AllocOutcomes :
          Finish(n, strarray_add_uniq(arr[n], heap, s, oc) @@ [ub |-> FALSE])

\* strarray_addall( &n, m ): the struct m is passed by value.
AddAll(n, m) ==
    /\ Live
    /\ Called("addall", n, 0, m, <<>>)
    /\ \E oc \in AllocOutcomes, uo \in ReadOutcomes :
          Finish(n, strarray_addall(arr[n], heap, arr[m], oc, uo))

AddAllUniq(n, m) ==
    /\ Live
    /\ Called("addall_uniq", n, 0, m, <<>>)
    /\ \E oc \in AllocOutcomes, uo \in ReadOutcomes :
          Finish(n, strarray_addall_uniq(arr[n], heap, arr[m], oc, uo))

Exists(n, s) ==
    /\ Live
    /\ Called("exists", n, s, "none", <<>>)
    /\ ret' = strarray_exists(arr[n], heap, s)
    /\ UNCHANGED <<heap, arr, status, err, ub, grow>>

\* The caller's state after n = <a call returning a struct by value>.
Assign(n, res) ==
    /\ ret' = NULL
    /\ ub' = ub
    /\ IF res.st = "running"
       THEN /\ arr' = [res.mem EXCEPT ![n] = res.val, !["array"] = ZeroArray]
            /\ heap' = res.h
            /\ grow' = [grow EXCEPT ![n] = res.grew]
            /\ UNCHANGED <<status, err>>
       ELSE /\ status' = res.st
            /\ err' = Append(err, Diag)
            /\ UNCHANGED <<arr, heap, grow>>

\* n = strarray_fromstring( text, delim ), the text being a caller's string.
FromString(n, text, delim) ==
    /\ Live
    /\ Called("fromstring", n, text, "none", delim)
    /\ \E oc \in AllocOutcomes :
          Assign(n, strarray_fromstring(arr, heap, text, delim, oc))

FromPath(n, path, win32) ==
    /\ Live
    /\ Called("frompath", n, path, "none", PathDelim(win32))
    /\ \E oc \in AllocOutcomes :
          Assign(n, strarray_frompath(arr, heap, path, win32, oc))

\* The caller's state after a call that returned the pointer res.p.
Return(res) ==
    /\ IF res.st = "running"
       THEN /\ heap' = res.h
            /\ ret' = res.p
            /\ ub' = res.ub
            /\ UNCHANGED <<status, err>>
       ELSE /\ status' = res.st
            /\ err' = Append(err, Diag)
            /\ UNCHANGED <<heap, ret, ub>>
    /\ UNCHANGED <<arr, grow>>

Tostring(n, sep) ==
    /\ Live
    /\ Called("tostring", n, 0, "none", sep)
    /\ \E oc \in AllocOutcomes :
          Return(strarray_tostring(arr[n], heap, sep, oc))

Next ==
    \/ \E n \in Arrays, s \in Lits : Add(n, s)
    \/ \E n \in Arrays, s \in Lits : AddUniq(n, s)
    \/ \E n \in Arrays, m \in Arrays : AddAll(n, m)
    \/ \E n \in Arrays, m \in Arrays : AddAllUniq(n, m)
    \/ \E n \in Arrays, s \in Lits : Exists(n, s)
    \/ \E n \in Arrays, delim \in Delims : FromString(n, TextBlock, delim)
    \/ \E n \in Arrays, path \in {NULL, TextBlock}, win32 \in BOOLEAN : FromPath(n, path, win32)
    \/ \E n \in Arrays, sep \in Seps : Tostring(n, sep)

Spec == Init /\ [][Next]_vars

\* ------------------------------------------------------------- SpecSplit
\* The tokenizer on every text over 'a', ':' and ';' of bounded length.
TextChars == {97, 58, 59}

RECURSIVE TextsOfLen(_)
TextsOfLen(k) ==
    IF k = 0 THEN {<<>>} ELSE {Append(t, c) : t \in TextsOfLen(k - 1), c \in TextChars}

Texts == UNION {TextsOfLen(k) : k \in 0..MaxTextLen}

InitSplit ==
    \E text \in Texts :
        LET pa == Prefill(InitHeap(text), 0) IN InitWith(pa, pa, FmtIdle)

NextSplit ==
    \/ \E n \in Arrays, delim \in Delims : FromString(n, TextBlock, delim)
    \/ \E n \in Arrays, win32 \in BOOLEAN : FromPath(n, TextBlock, win32)

SpecSplit == InitSplit /\ [][NextSplit]_vars

\* ------------------------------------------------------------- SpecSort
RECURSIVE SeqsOfLen(_)
SeqsOfLen(k) ==
    IF k = 0 THEN {<<>>} ELSE {Append(t, s) : t \in SeqsOfLen(k - 1), s \in Lits}

InitSort ==
    \E strs \in UNION {SeqsOfLen(k) : k \in 0..MaxSortLen} :
        LET pa == Build(InitHeap(<<>>), strs) IN InitWith(pa, Prefill(pa.h, 0), FmtIdle)

Qsort(n, c) ==
    /\ status = "running" /\ calls = 0
    /\ Called("qsort", n, c, "none", <<>>)
    /\ heap' \in strarray_qsort(arr[n], heap, c)
    /\ UNCHANGED <<arr, status, err, ub, ret, grow>>

\* A search, of the array as given or of the array just sorted.
Bsearch(n, str, c) ==
    /\ status = "running"
    /\ calls = 0 \/ (call.op = "qsort" /\ call.arr = n /\ call.arg = c)
    /\ Called("bsearch", n, str, "none", <<>>)
    /\ ret' = strarray_bsearch(arr[n], heap, str, c)
    /\ UNCHANGED <<heap, arr, status, err, ub, grow>>

NextSort ==
    \/ \E c \in Comparators : Qsort("a", c)
    \/ \E s \in Lits, c \in Comparators : Bsearch("a", s, c)

SpecSort == InitSort /\ [][NextSort]_vars

\* ------------------------------------------------------------- SpecAlloc
\* The allocation wrappers called directly, on blocks the caller got from them.
Owned(h) == {b \in DOMAIN h : h[b].live /\ b \notin Lits /\ b # TextBlock}

Xmalloc(size) ==
    /\ Live
    /\ Called("xmalloc", "none", size, "none", <<>>)
    /\ \E oc \in AllocOutcomes : Return(xmalloc(heap, size, oc) @@ [ub |-> FALSE])

Xrealloc(ptr, size) ==
    /\ Live
    /\ Called("xrealloc", "none", size, "none", <<>>)
    /\ \E oc \in AllocOutcomes \cup {"freed"} :
          Return(xrealloc(heap, ptr, size, oc) @@ [ub |-> FALSE])

Xstrdup(str) ==
    /\ Live
    /\ Called("xstrdup", "none", str, "none", <<>>)
    /\ \E oc \in AllocOutcomes : Return(xstrdup(heap, str, oc) @@ [ub |-> FALSE])

NextAlloc ==
    \/ \E size \in 0..MaxAllocSize : Xmalloc(size)
    \/ \E ptr \in {NULL} \cup Owned(heap), size \in 0..MaxAllocSize : Xrealloc(ptr, size)
    \/ \E str \in Lits \cup {TextBlock} : Xstrdup(str)

SpecAlloc == Init /\ [][NextAlloc]_vars

\* ------------------------------------------------------------- SpecFmt
InitFmt ==
    \E len \in 0..MaxFmtLen, fails \in 0..MaxFmtFails :
        LET pa == Prefill(InitHeap(<<>>), 0) IN
        InitWith(pa, pa, [pc |-> "loop", size |-> FMT_SIZE, len |-> len,
                          fails |-> fails, tries |-> 0])

\* What vsnprintf may return: the rendered length, or -1 to signal failure.
EngineResults == IF fmt.fails > 0 THEN {fmt.len, -1} ELSE {fmt.len}

\* One iteration of the loop: xmalloc, vsnprintf, then grow and free, or return.
Attempt ==
    /\ fmt.pc = "loop" /\ status = "running"
    /\ \E oc \in {"fail", "inplace"}, n \in EngineResults :
          LET buf == xmalloc(heap, fmt.size, oc) IN
          IF buf.st # "running"
          THEN /\ status' = buf.st
               /\ err' = Append(err, Diag)
               /\ UNCHANGED <<heap, ret, fmt>>
          ELSE LET res == strmake_step(buf.h, buf.p, fmt.size, fmt.len, n) IN
               /\ heap' = res.h
               /\ ret' = res.p
               /\ fmt' = [fmt EXCEPT !.size = res.size,
                                     !.pc = IF res.p # NULL THEN "done" ELSE "loop",
                                     !.fails = IF n = -1 THEN @ - 1 ELSE @,
                                     !.tries = @ + 1]
               /\ UNCHANGED <<status, err>>
    /\ UNCHANGED <<arr, ub, call, calls, grow>>

NextFmt == Attempt

SpecFmt == InitFmt /\ [][NextFmt]_vars /\ WF_vars(Attempt)

\* ============================================================= claims
AddFamily == {"add", "add_uniq", "addall", "addall_uniq"}

\* The bytes of each string of a sequence of string pointers.
BytesOf(h, seq) == [i \in 1..Len(seq) |-> Bytes(h, seq[i])]

\* Some string in use in s has the bytes of str.
HasBytes(h, s, str) ==
    \E i \in 1..s.count : Bytes(h, Elems(h, s)[i]) = Bytes(h, str)

\* C1: a strarray_add that returns leaves the old strings, same pointers at the
\* same indices, followed by the new one; count is one more; strarray_exists
\* finds the new string.
C1_AddAppends ==
    [][\A n \in Arrays :
         (call'.op = "add" /\ call'.arr = n /\ status' = "running") =>
            /\ Elems(heap', arr'[n]) = Append(Elems(heap, arr[n]), call'.arg)
            /\ arr'[n].count = arr[n].count + 1
            /\ strarray_exists(arr'[n], heap', call'.arg) = 1]_vars

\* An add to a full array of 16 strings has returned: the storage was grown.
C1_Witness ==
    /\ call.op = "add" /\ call.arr = "a" /\ status = "running"
    /\ arr["a"].count = 17 /\ arr["a"].size = 32 /\ calls = 1

RECURSIVE IsCapacity(_)
\* 0, or 16 doubled some number of times.
IsCapacity(x) == x = 0 \/ x = 16 \/ (x > 16 /\ x % 2 = 0 /\ IsCapacity(x \div 2))

RECURSIVE GrowthSteps(_)
\* The growth steps that lead from capacity 0 to capacity x.
GrowthSteps(x) == IF x = 0 THEN 0 ELSE IF x <= 16 THEN 1 ELSE 1 + GrowthSteps(x \div 2)

\* C2: count <= size, size is 0 or 16 doubled, the growth steps taken are those
\* of the doubling sequence (two for 17 strings: 0 to 16 to 32); k adds to the
\* empty array, and one more add, give the strings in insertion order; no call of
\* the add family lowers size.
C2_StateOK ==
    /\ \A n \in Arrays :
          /\ arr[n].count <= arr[n].size
          /\ IsCapacity(arr[n].size)
          /\ grow[n] = GrowthSteps(arr[n].size)
          /\ (arr[n].count = 17 => arr[n].size = 32 /\ grow[n] = 2)
    /\ calls = 0 => Elems(heap, arr["a"]) = PrefillSeq(arr["a"].count)
    /\ (calls = 1 /\ call.op = "add" /\ call.arr = "a" /\ status = "running")
          => Elems(heap, arr["a"]) = Append(PrefillSeq(arr["a"].count - 1), call.arg)

C2_Capacity ==
    /\ []C2_StateOK
    /\ [][\A n \in Arrays : call'.op \in AddFamily => arr'[n].size >= arr[n].size]_vars

\* The 17th add to an array built from the empty one has returned.
C2_Witness ==
    /\ calls = 1 /\ call.op = "add" /\ call.arr = "a" /\ status = "running"
    /\ arr["a"].count = 17 /\ arr["a"].size = 32 /\ grow["a"] = 2

\* C3: a strarray_add_uniq that returns raises count by 1 when no string in use
\* had the bytes of the argument and by 0 otherwise, leaves every string that was
\* in use at its index, and a second strarray_add_uniq of the same string changes
\* neither the struct nor the heap.
C3_AddUniqIdempotent ==
    [][\A n \in Arrays :
         (call'.op = "add_uniq" /\ call'.arr = n /\ status' = "running") =>
            /\ arr'[n].count =
                  arr[n].count + (IF HasBytes(heap, arr[n], call'.arg) THEN 0 ELSE 1)
            /\ SubSeq(Elems(heap', arr'[n]), 1, arr[n].count) = Elems(heap, arr[n])
            /\ \A oc \in AllocOutcomes :
                  LET again == strarray_add_uniq(arr'[n], heap', call'.arg, oc) IN
                  again.a = arr'[n] /\ again.h = heap' /\ again.st = "running"]_vars

\* add_uniq of a string whose bytes another pointer in the array already has.
C3_Witness ==
    /\ call.op = "add_uniq" /\ call.arr = "a" /\ status = "running"
    /\ HasBytes(heap, arr["a"], call.arg)
    /\ \A i \in 1..arr["a"].count : Elems(heap, arr["a"])[i] # call.arg

\* C4: empty_strarray keeps count 0, size 0 and no storage; two arrays never share
\* storage; a call on one array leaves the struct and the strings of the other
\* array as they were.
C4_StateOK ==
    /\ arr["empty_strarray"] = ZeroArray
    /\ \A n \in Arrays, m \in Arrays :
          (n # m /\ arr[n].str # NULL) => arr[n].str # arr[m].str

C4_EmptyShared ==
    /\ []C4_StateOK
    /\ [][\A n \in Arrays, m \in Arrays :
            (call'.arr = n /\ m # n /\ status' = "running") =>
               /\ arr'[m] = arr[m]
               /\ Elems(heap', arr'[m]) = Elems(heap, arr[m])]_vars

\* An array obtained from empty_strarray by the tokenizer holds two tokens.
C4_Witness ==
    /\ call.op = "fromstring" /\ status = "running"
    /\ arr[call.arr].count = 2 /\ arr[call.arr].size = 16

RECURSIVE Runs(_, _, _)
\* The maximal non-empty runs of bytes of text that are not in delim, cur being
\* the run that the bytes seen so far have started.
Runs(text, delim, cur) ==
    LET done == IF cur = <<>> THEN <<>> ELSE <<cur>> IN
    IF text = <<>> THEN done
    ELSE IF \E k \in 1..Len(delim) : delim[k] = Head(text)
    THEN done \o Runs(Tail(text), delim, <<>>)
    ELSE Runs(Tail(text), delim, Append(cur, Head(text)))

\* C5: a strarray_fromstring that returns gives the maximal non-empty runs of
\* non-delimiter bytes of the text, in order, each in a block of its own, and
\* leaves the caller's text as it was.
C5_SplitRuns ==
    [][\A n \in Arrays :
         (call'.op \in {"fromstring", "frompath"} /\ call'.arr = n
             /\ call'.arg # NULL /\ status' = "running") =>
            /\ BytesOf(heap', Elems(heap', arr'[n]))
                  = Runs(Bytes(heap, call'.arg), call'.bytes, <<>>)
            /\ heap'[call'.arg] = heap[call'.arg]
            /\ \A i \in 1..arr'[n].count :
                  /\ ~heap[Elems(heap', arr'[n])[i]].live
                  /\ \A j \in 1..arr'[n].count :
                        Elems(heap', arr'[n])[i] = Elems(heap', arr'[n])[j] => i = j]_vars

\* A text with leading, doubled and trailing delimiters gave its one token.
C5_Witness ==
    /\ call.op = "fromstring" /\ status = "running" /\ call.bytes = <<58>>
    /\ Bytes(heap, TextBlock) = <<58, 97, 58, 58>>
    /\ arr[call.arr].count = 1

RECURSIVE JoinOf(_, _)
\* strs[1] sep strs[2] ... sep strs[n]
JoinOf(strs, sep) ==
    IF strs = <<>> THEN <<>>
    ELSE IF Len(strs) = 1 THEN strs[1]
    ELSE strs[1] \o sep \o JoinOf(Tail(strs), sep)

RECURSIVE SumLen(_)
SumLen(strs) == IF strs = <<>> THEN 0 ELSE Len(Head(strs)) + SumLen(Tail(strs))

\* C6: a strarray_tostring that returns gives a live block that is no string of
\* the array and no block of the caller, written within its bounds, holding the
\* strings in order joined by the separator; the block has 1 cell for count 0 and
\* the sum of the lengths plus (count - 1) separators plus 1 otherwise.
C6_Join ==
    (call.op = "tostring" /\ status = "running") =>
        LET s == arr[call.arr]
            strs == BytesOf(heap, Elems(heap, s))
        IN  /\ ret # NULL /\ heap[ret].live /\ ~ub
            /\ ret \notin Lits \cup {TextBlock}
            /\ \A n \in Arrays : arr[n].str # ret
            /\ \A i \in 1..s.count : Elems(heap, s)[i] # ret
            /\ Bytes(heap, ret) = JoinOf(strs, call.bytes)
            /\ Len(heap[ret].data) =
                  IF s.count = 0 THEN 1
                  ELSE SumLen(strs) + (s.count - 1) * Len(call.bytes) + 1

\* Three or more strings were joined with a separator of two bytes.
C6_Witness ==
    /\ call.op = "tostring" /\ status = "running" /\ ret # NULL
    /\ arr[call.arr].count >= 3 /\ Len(call.bytes) = 2

\* The strings of seq that are string p, counted.
Occurs(seq, p) == Cardinality({i \in 1..Len(seq) : seq[i] = p})

\* C7: after strarray_qsort the array holds the same strings, each as often as
\* before, in an order the comparator accepts, and strarray_bsearch with that
\* comparator returns, for a key that compares equal to some string of the array,
\* a string of the array comparing equal to the key, and NULL for any other key.
C7_SortSearch ==
    [][(call'.op = "qsort") =>
          LET s == arr'[call'.arr]
              c == call'.arg
              old == Elems(heap, arr[call'.arr])
              new == Elems(heap', s)
          IN  /\ arr' = arr
              /\ \A p \in Lits : Occurs(new, p) = Occurs(old, p)
              /\ SortedBy(heap', c, new)
              /\ \A key \in Lits :
                    LET r == strarray_bsearch(s, heap', key, c) IN
                    IF \E i \in 1..s.count : Compare(heap', c, key, new[i]) = 0
                    THEN /\ r # NULL
                         /\ \E i \in 1..s.count : new[i] = r
                         /\ Compare(heap', c, key, r) = 0
                    ELSE r = NULL]_vars

\* A search of an array of three strings that was just sorted found its key.
C7_Witness ==
    /\ call.op = "bsearch" /\ calls = 2 /\ arr["a"].count = 3 /\ ret # NULL
    /\ \E i \in 1..3 : Elems(heap, arr["a"])[i] # ret

\* Blocks that strmake got from xmalloc and has not released.
FmtBlocks == Owned(heap)

FmtDoneOK ==
    fmt.pc = "done" =>
        /\ ret # NULL /\ FmtBlocks = {ret}
        /\ Bytes(heap, ret) = Output(fmt.len)
        /\ heap[ret].data[fmt.len + 1] = NUL
        /\ Len(heap[ret].data) = fmt.size
        /\ fmt.size >= fmt.len + 1
        /\ (fmt.tries = 1 => fmt.size = FMT_SIZE)

AllocOps == {"xmalloc", "xrealloc", "xstrdup"}

\* The size a call of an allocation wrapper asks for.
Asked == IF call.op = "xstrdup" THEN strlen(heap, call.arg) + 1 ELSE call.arg

\* C9, as amended: xmalloc, xstrdup, and xrealloc of a size that is not 0 either
\* return a live block of at least the size asked (at least 1), or write the
\* diagnostic to stderr and exit with status 1, and nothing else ends the process.
C9_NeverNull ==
    /\ status \in {"running", "exit1"}
    /\ status = "exit1" => err = <<Diag>>
    /\ status = "running" => err = <<>>
    /\ (call.op \in AllocOps /\ ~(call.op = "xrealloc" /\ call.arg = 0)
           /\ status = "running") =>
          /\ ret # NULL /\ heap[ret].live
          /\ Len(heap[ret].data) >= Asked /\ Len(heap[ret].data) >= 1

\* xrealloc of a size that is not 0 failed: the diagnostic, then exit(1).
C9_Witness ==
    call.op = "xrealloc" /\ call.arg # 0 /\ status = "exit1" /\ err = <<Diag>>

\* C9 as stated: every call of the three, size 0 included, returns a block that
\* is not NULL, or exits.
C9_Original ==
    (call.op \in AllocOps /\ status = "running") => ret # NULL

\* C10: strarray_addall( &a, a ) that returns leaves a's strings followed by the
\* same strings again, strarray_addall_uniq( &a, a ) leaves a as it was, and
\* neither reads released storage.
C10_SelfAppend ==
    [][\A n \in Arrays :
         (call'.arr = n /\ call'.src = n /\ status' # "exit1") =>
            /\ status' = "running" /\ ~ub'
            /\ call'.op = "addall" =>
                  Elems(heap', arr'[n]) = Elems(heap, arr[n]) \o Elems(heap, arr[n])
            /\ call'.op = "addall_uniq" =>
                  arr'[n] = arr[n] /\ heap' = heap]_vars
====
